---- MODULE Spec2Model ----
(***************************************************************************)
(* Model of menu_checker.py: the SMS menu checker.                         *)
(*                                                                         *)
(* A Python str is a sequence of one-character strings.  Dish objects live *)
(* in a heap (a sequence of records, a reference is an index), so that     *)
(* object identity and in-place mutation can be told from construction of  *)
(* a fresh value.                                                          *)
(***************************************************************************)
EXTENDS Integers, Sequences, FiniteSets, TLC

VARIABLES
    pc,           \* position of the request / of the function under study
    request,      \* request.values of the incoming SMS webhook
    query,        \* first argument of check_menu
    location,     \* second argument of check_menu
    calls,        \* external interactions issued so far, with their outcome
    restaurants,  \* list returned by get_restaurants
    api_result,   \* decoded JSON of the menu call
    heap,         \* Dish objects: heap[ref] = [name, info, note]
    menu,         \* Menu returned by get_menu_items (dishes are references)
    safe_words,   \* safe_words argument of filter_menu_items
    danger_words, \* danger_words argument of filter_menu_items
    filtered,     \* Menu returned by filter_menu_items
    reply,        \* return value of check_menu
    sent,         \* text handed to response.message
    fault,        \* exception that left the handler, "none" when none did
    fmt           \* <<x, format_dish(x), format_dish(format_dish(x))>> as far as computed

vars == <<pc, request, query, location, calls, restaurants, api_result, heap,
          menu, safe_words, danger_words, filtered, reply, sent, fault, fmt>>

(***************************************************************************)
(* Bounds of the input domains.                                            *)
(***************************************************************************)
MaxLen == 4        \* longest argument of format_dish
MaxDishes == 2     \* dishes in an input menu of filter_menu_items
MaxWords == 2      \* words in a safe or danger list
MaxSections == 2   \* sections of one provider response

(***************************************************************************)
(* Python str primitives.                                                  *)
(***************************************************************************)
S(str) == [i \in 1..Len(str) |-> SubSeq(str, i, i)]

\* the whitespace str.strip() and str.split() act on, as far as the inputs use it
Whitespace == {" ", "\n", "\t"}

UpperChars == S("ABCDEFGHIJKLMNOPQRSTUVWXYZ")
LowerChars == S("abcdefghijklmnopqrstuvwxyz")

LowerOf == [c \in {UpperChars[i] : i \in 1..Len(UpperChars)} |->
               LowerChars[CHOOSE i \in 1..Len(UpperChars) : UpperChars[i] = c]]

LowerChar(c) == IF c \in DOMAIN LowerOf THEN LowerOf[c] ELSE c

\* str.lower()
lower(s) == [i \in 1..Len(s) |-> LowerChar(s[i])]

\* index of the first character of s outside cs, Len(s) + 1 when there is none
FirstNotIn(s, cs) ==
    IF \A i \in 1..Len(s) : s[i] \in cs
    THEN Len(s) + 1
    ELSE CHOOSE i \in 1..Len(s) : s[i] \notin cs /\ \A j \in 1..(i - 1) : s[j] \in cs

\* index of the last character of s outside cs, 0 when there is none
\* (searched from the end: k counts positions back from Len(s))
LastNotIn(s, cs) ==
    IF \A i \in 1..Len(s) : s[i] \in cs
    THEN 0
    ELSE LET n == Len(s)
             k == CHOOSE k \in 1..n :
                      s[n + 1 - k] \notin cs /\ \A j \in 1..(k - 1) : s[n + 1 - j] \in cs
         IN  n + 1 - k

\* str.strip()
strip(s) == SubSeq(s, FirstNotIn(s, Whitespace), LastNotIn(s, Whitespace))

\* str.rstrip(chars)
rstrip(s, cs) == SubSeq(s, 1, LastNotIn(s, cs))

\* str.replace(old, new) for one-character old and new
replace(s, old, new) == [i \in 1..Len(s) |-> IF s[i] = old THEN new ELSE s[i]]

\* sep.join(s.split()) for a one-character sep: the words of s, that is its
\* maximal runs of non-whitespace, joined by sep
join_split(sep, s) ==
    LET lo == FirstNotIn(s, Whitespace)
        hi == LastNotIn(s, Whitespace)
        keep(i) == /\ lo <= i
                   /\ i <= hi
                   /\ (s[i] \notin Whitespace \/ s[i - 1] \notin Whitespace)
        marked == [i \in 1..Len(s) |->
                     IF keep(i)
                     THEN (IF s[i] \in Whitespace THEN sep ELSE s[i])
                     ELSE ""]
    IN  SelectSeq(marked, LAMBDA c : c # "")

\* `word in text`
Contains(text, word) ==
    \E i \in 1..(Len(text) - Len(word) + 1) :
        \A k \in 1..Len(word) : text[i + k - 1] = word[k]

(***************************************************************************)
(* Lexical normalizer and dish formatter.                                  *)
(***************************************************************************)
normalize(text) == strip(lower(text))

format_dish(info) == rstrip(replace(join_split(" ", info), ".", ";"), {";"})

(***************************************************************************)
(* format_dish applied to any short string, then to its own result.        *)
(***************************************************************************)
FormatAlphabet == {"a", " ", ".", ";"}

FormatInputs == UNION {[1..n -> FormatAlphabet] : n \in 0..MaxLen}

\* A Menu with no dishes, as Menu.__init__ leaves it
EmptyMenu(restaurant) == [restaurant |-> restaurant, dishes |-> <<>>]

\* the variables a study of one function does not use
NoRequest ==
    /\ request = <<>> /\ query = <<>> /\ location = <<>> /\ calls = <<>>
    /\ restaurants = <<>> /\ reply = <<>> /\ sent = <<>> /\ fault = "none"

NoMenus ==
    /\ api_result = <<>> /\ heap = <<>> /\ menu = EmptyMenu(<<>>)
    /\ safe_words = <<>> /\ danger_words = <<>> /\ filtered = EmptyMenu(<<>>)

InitFormat ==
    /\ pc = "format"
    /\ fmt \in {<<x>> : x \in FormatInputs}
    /\ NoRequest
    /\ NoMenus

FormatOnce ==
    /\ pc = "format"
    /\ fmt' = Append(fmt, format_dish(fmt[1]))
    /\ pc' = "format_again"
    /\ UNCHANGED <<request, query, location, calls, restaurants, api_result, heap,
                   menu, safe_words, danger_words, filtered, reply, sent, fault>>

FormatAgain ==
    /\ pc = "format_again"
    /\ fmt' = Append(fmt, format_dish(fmt[2]))
    /\ pc' = "formatted"
    /\ UNCHANGED <<request, query, location, calls, restaurants, api_result, heap,
                   menu, safe_words, danger_words, filtered, reply, sent, fault>>

NextFormat == FormatOnce \/ FormatAgain

SpecFormat == InitFormat /\ [][NextFormat]_vars

(***************************************************************************)
(* Dish and Menu.                                                          *)
(***************************************************************************)
DefaultNote == S("none")

Dish(dish_name, dish_info, dish_note) ==
    [name |-> dish_name, info |-> dish_info, note |-> dish_note]

\* Dish.__str__
dish_str(dish) ==
    IF dish.info # <<>> THEN dish.name \o S(": ") \o dish.info ELSE dish.name

\* Dish.set_note, on the object behind ref
set_note(h, ref, new_note) == [h EXCEPT ![ref].note = new_note]

\* Menu.add_dish of a newly constructed Dish: the object is allocated on the
\* heap and its reference appended to the dish list
add_new_dish(acc, dish) ==
    [acc EXCEPT !.heap = Append(acc.heap, dish),
                !.dishes = Append(acc.dishes, Len(acc.heap) + 1)]

\* the Dish objects of a Menu, in menu order
DishesOf(h, m) == [i \in 1..Len(m.dishes) |-> h[m.dishes[i]]]

RECURSIVE bullet_lines(_)
bullet_lines(dishes) ==
    IF dishes = <<>> THEN <<>>
    ELSE S("- ") \o dish_str(Head(dishes)) \o S("\n") \o bullet_lines(Tail(dishes))

\* Menu.__str__
menu_str(h, m) == S("*") \o m.restaurant \o S("*\n") \o bullet_lines(DishesOf(h, m))

RECURSIVE join(_, _)
join(sep, strs) ==
    IF strs = <<>> THEN <<>>
    ELSE IF Len(strs) = 1 THEN strs[1]
    ELSE strs[1] \o sep \o join(sep, Tail(strs))

\* Menu.simplified_menu
simplified_menu(h, m) ==
    LET dishes == DishesOf(h, m)
    IN  m.restaurant \o S(": ") \o join(S("; "), [i \in 1..Len(dishes) |-> dishes[i].name])

is_positive(number) == number > 0

(***************************************************************************)
(* Menu flattener: get_menu_items after its call_api.  acc carries the     *)
(* heap, the dish list of flat_menu and dish_set through the loops.        *)
(***************************************************************************)
IsBeverageSection(section) ==
    Contains(section.name, S("Drinks")) \/ Contains(section.name, S("Beverages"))

\* visit_dish without the dish_set test
visit_dish_no_dedup(acc, dish) ==
    LET info == IF "description" \notin DOMAIN dish THEN <<>> ELSE dish.description
    IN  [add_new_dish(acc, Dish(dish.name, rstrip(strip(lower(info)), {"."}), DefaultNote))
           EXCEPT !.dish_set = acc.dish_set \cup {dish.name}]

visit_dish(acc, dish) ==
    LET info == IF "description" \notin DOMAIN dish THEN <<>> ELSE dish.description
    IN  IF dish.name \notin acc.dish_set
        THEN [add_new_dish(acc, Dish(dish.name, rstrip(strip(lower(info)), {"."}), DefaultNote))
                EXCEPT !.dish_set = acc.dish_set \cup {dish.name}]
        ELSE acc

RECURSIVE visit_dishes(_, _)
visit_dishes(acc, dishes) ==
    IF dishes = <<>> THEN acc
    ELSE visit_dishes(visit_dish(acc, Head(dishes)), Tail(dishes))

\* visit_section skipping only the sections named after 'Drinks'
visit_section_drinks_only(acc, section) ==
    IF Contains(section.name, S("Drinks")) THEN acc
    ELSE IF is_positive(section.entries.count)
         THEN visit_dishes(acc, section.entries.items)
         ELSE acc

visit_section(acc, section) ==
    IF IsBeverageSection(section) THEN acc
    ELSE IF is_positive(section.entries.count)
         THEN visit_dishes(acc, section.entries.items)
         ELSE acc

RECURSIVE visit_sections(_, _)
visit_sections(acc, sections) ==
    IF sections = <<>> THEN acc
    ELSE visit_sections(visit_section(acc, Head(sections)), Tail(sections))

visit_menu(acc, m) ==
    IF is_positive(m.entries.count) THEN visit_sections(acc, m.entries.items) ELSE acc

RECURSIVE visit_menus(_, _)
visit_menus(acc, menus) ==
    IF menus = <<>> THEN acc
    ELSE visit_menus(visit_menu(acc, Head(menus)), Tail(menus))

\* get_menu_items(restaurant), given the decoded result of its call_api
get_menu_items(h, restaurant, result) ==
    LET start == [heap |-> h, dishes |-> <<>>, dish_set |-> {}]
        acc == IF is_positive(result.response.menu.menus.count)
               THEN visit_menus(start, result.response.menu.menus.items)
               ELSE start
    IN  [heap |-> acc.heap,
         menu |-> [restaurant |-> restaurant.name, dishes |-> acc.dishes]]

(***************************************************************************)
(* Safety classifier: filter_menu_items.  acc carries the heap and the     *)
(* dish list of filtered_menu through the loop.                            *)
(***************************************************************************)
HasSafeWord == S("has safe word")
HasNoDangerWords == S("has no danger words")

Range(seq) == {seq[i] : i \in 1..Len(seq)}

\* filter_dish with the danger scan ahead of the safe-word test
filter_dish_danger_first(acc, ref, safe, danger) ==
    LET dish == acc.heap[ref]
        dish_name == normalize(dish.name)
        dish_info == normalize(dish.info)
        has_danger_word ==
            \E word \in Range(danger) : Contains(dish_name, word) \/ Contains(dish_info, word)
    IN  IF has_danger_word THEN acc
        ELSE IF \/ \E word \in Range(safe) : Contains(dish_name, word)
                \/ \E word \in Range(safe) : Contains(dish_info, word)
             THEN add_new_dish(acc, Dish(dish.name, format_dish(dish_info), HasSafeWord))
             ELSE add_new_dish(acc, Dish(dish.name, format_dish(dish_info), HasNoDangerWords))

\* filter_dish building the kept Dish from the normalized name
filter_dish_normalized_name(acc, ref, safe, danger) ==
    LET dish == acc.heap[ref]
        dish_name == normalize(dish.name)
        dish_info == normalize(dish.info)
        has_danger_word ==
            \E word \in Range(danger) : Contains(dish_name, word) \/ Contains(dish_info, word)
    IN  IF \/ \E word \in Range(safe) : Contains(dish_name, word)
           \/ \E word \in Range(safe) : Contains(dish_info, word)
        THEN add_new_dish(acc, Dish(dish_name, format_dish(dish_info), HasSafeWord))
        ELSE IF ~has_danger_word
             THEN add_new_dish(acc, Dish(dish_name, format_dish(dish_info), HasNoDangerWords))
             ELSE acc

\* filter_dish annotating the original Dish with set_note and adding that same
\* object to the filtered menu
filter_dish_in_place(acc, ref, safe, danger) ==
    LET dish == acc.heap[ref]
        dish_name == normalize(dish.name)
        dish_info == normalize(dish.info)
        has_danger_word ==
            \E word \in Range(danger) : Contains(dish_name, word) \/ Contains(dish_info, word)
        keep(note) == [heap |-> set_note(acc.heap, ref, note),
                       dishes |-> Append(acc.dishes, ref)]
    IN  IF \/ \E word \in Range(safe) : Contains(dish_name, word)
           \/ \E word \in Range(safe) : Contains(dish_info, word)
        THEN keep(HasSafeWord)
        ELSE IF ~has_danger_word THEN keep(HasNoDangerWords) ELSE acc

filter_dish(acc, ref, safe, danger) ==
    LET dish == acc.heap[ref]
        dish_name == normalize(dish.name)
        dish_info == normalize(dish.info)
        has_danger_word ==
            \E word \in Range(danger) : Contains(dish_name, word) \/ Contains(dish_info, word)
    IN  IF \/ \E word \in Range(safe) : Contains(dish_name, word)
           \/ \E word \in Range(safe) : Contains(dish_info, word)
        THEN add_new_dish(acc, Dish(dish.name, format_dish(dish_info), HasSafeWord))
        ELSE IF ~has_danger_word
             THEN add_new_dish(acc, Dish(dish.name, format_dish(dish_info), HasNoDangerWords))
             ELSE acc

RECURSIVE filter_dishes(_, _, _, _)
filter_dishes(acc, refs, safe, danger) ==
    IF refs = <<>> THEN acc
    ELSE filter_dishes(filter_dish(acc, Head(refs), safe, danger), Tail(refs), safe, danger)

filter_menu_items(h, original_menu, safe, danger) ==
    LET acc == filter_dishes([heap |-> h, dishes |-> <<>>], original_menu.dishes, safe, danger)
    IN  [heap |-> acc.heap,
         menu |-> [restaurant |-> original_menu.restaurant, dishes |-> acc.dishes]]

(***************************************************************************)
(* filter_menu_items applied to any small menu the flattener can produce,  *)
(* under any short safe and danger lists.                                  *)
(***************************************************************************)
SeqsUpTo(set, n) == UNION {[1..k -> set] : k \in 0..n}

Restaurant(restaurant_id, restaurant_name, restaurant_address) ==
    [id |-> restaurant_id, name |-> restaurant_name, address |-> restaurant_address]

GreenLeaf == Restaurant(S("V1"), S("Green Leaf Cafe"), S("1 Main St\nIrvine, CA"))

\* dishes as get_menu_items constructs them: raw name, description lower-cased,
\* stripped and cut of trailing periods, note at its default
FilterDishPool ==
    { Dish(S("Veggie Burger"), S("grilled  patty. with dip"), DefaultNote),
      Dish(S("Steak"), S("grilled beef"), DefaultNote),
      Dish(S("Beef Pho"), <<>>, DefaultNote),
      Dish(S("VEGAN Chili"), S("no beef"), DefaultNote),
      Dish(S("Salad"), S("with beef. or vegan ;"), DefaultNote) }

SafeWordPool == {S("vegan"), S("veggie")}

\* a blank line of the word file yields the empty word
DangerWordPool == {S("beef"), <<>>}

InitFilter ==
    /\ pc = "classify"
    /\ heap \in {h \in SeqsUpTo(FilterDishPool, MaxDishes) :
                     \A i, j \in 1..Len(h) : h[i].name = h[j].name => i = j}
    /\ menu = [restaurant |-> GreenLeaf.name, dishes |-> [i \in 1..Len(heap) |-> i]]
    /\ safe_words \in SeqsUpTo(SafeWordPool, MaxWords)
    /\ danger_words \in SeqsUpTo(DangerWordPool, MaxWords)
    /\ api_result = <<>> /\ filtered = EmptyMenu(<<>>)
    /\ NoRequest
    /\ fmt = <<>>

\* one call filter_menu_items(menu, safe_words, danger_words)
Classify ==
    /\ pc = "classify"
    /\ LET r == filter_menu_items(heap, menu, safe_words, danger_words)
       IN  heap' = r.heap /\ filtered' = r.menu
    /\ pc' = "classified"
    /\ UNCHANGED <<request, query, location, calls, restaurants, api_result, menu,
                   safe_words, danger_words, reply, sent, fault, fmt>>

NextFilter == Classify

SpecFilter == InitFilter /\ [][NextFilter]_vars

(***************************************************************************)
(* get_menu_items applied to any small provider response, followed by the  *)
(* classification of the flattened menu.                                   *)
(***************************************************************************)
Tofu == [name |-> S("Tofu")]
FriedTofu == [name |-> S("Tofu"), description |-> S(" Fried Tofu.. ")]
BeefTofu == [name |-> S("tofu"), description |-> S("With Beef.")]

\* the entry lists a section may hold
EntryLists == {<<>>, <<Tofu>>, <<FriedTofu>>, <<BeefTofu, Tofu>>}

SectionNames == {S("Mains"), S("Soft Drinks"), S("Beverages"), S("drinks")}

\* a provider list with its count; a count of 0 may come with entries
Counted(items) == {[count |-> c, items |-> items] : c \in {0, Len(items)}}

Sections ==
    {[name |-> n, entries |-> e] :
        n \in SectionNames,
        e \in UNION {Counted(items) : items \in EntryLists}}

\* the ways to cut a section list into consecutive non-empty menus
RECURSIVE Groupings(_)
Groupings(sections) ==
    IF sections = <<>> THEN {<<>>}
    ELSE UNION { {<<SubSeq(sections, 1, k)>> \o rest :
                     rest \in Groupings(SubSeq(sections, k + 1, Len(sections)))} :
                 k \in 1..Len(sections) }

MenuResponse(groups) ==
    [response |-> [menu |-> [menus |->
        [count |-> Len(groups),
         items |-> [i \in 1..Len(groups) |->
                      [entries |-> [count |-> Len(groups[i]), items |-> groups[i]]]]]]]]

vegetarian_words == <<S("vegan"), S("vegetarian")>>

InitFlatten ==
    /\ pc = "flatten"
    /\ \E k \in 0..MaxSections :
          \E sections \in [1..k -> Sections] :
              \E groups \in Groupings(sections) : api_result = MenuResponse(groups)
    /\ restaurants = <<GreenLeaf>>
    /\ heap = <<>>
    /\ menu = EmptyMenu(<<>>) /\ filtered = EmptyMenu(<<>>)
    /\ safe_words = vegetarian_words
    /\ danger_words = <<S("beef")>>
    /\ request = <<>> /\ query = <<>> /\ location = <<>> /\ calls = <<>>
    /\ reply = <<>> /\ sent = <<>> /\ fault = "none"
    /\ fmt = <<>>

\* the part of get_menu_items(restaurants[0]) that follows its call_api
Flatten ==
    /\ pc = "flatten"
    /\ LET r == get_menu_items(heap, restaurants[1], api_result)
       IN  heap' = r.heap /\ menu' = r.menu
    /\ pc' = "classify"
    /\ UNCHANGED <<request, query, location, calls, restaurants, api_result,
                   safe_words, danger_words, filtered, reply, sent, fault, fmt>>

NextFlatten == Flatten \/ Classify

SpecFlatten == InitFlatten /\ [][NextFlatten]_vars

(***************************************************************************)
(* One SMS request: sms_reply, check_menu and the external calls.          *)
(***************************************************************************)
TWILIO_MAXIMUM_MESSAGE_SIZE == 1600

\* is_too_large with the limit counted as too large
is_too_large_at_limit(message) == Len(message) >= TWILIO_MAXIMUM_MESSAGE_SIZE

is_too_large(message) == Len(message) > TWILIO_MAXIMUM_MESSAGE_SIZE

\* index of the first occurrence of word in text, 0 when there is none
find(text, word) ==
    LET at(i) == \A k \in 1..Len(word) : text[i + k - 1] = word[k]
        places == 1..(Len(text) - Len(word) + 1)
    IN  IF \E i \in places : at(i)
        THEN CHOOSE i \in places : at(i) /\ \A j \in 1..(i - 1) : ~at(j)
        ELSE 0

\* str.split(sep) for a non-empty sep
RECURSIVE split(_, _)
split(text, sep) ==
    LET i == find(text, sep)
    IN  IF i = 0 THEN <<text>>
        ELSE <<SubSeq(text, 1, i - 1)>> \o split(SubSeq(text, i + Len(sep), Len(text)), sep)

\* request.values.get(key, default)
values_get(values, key, default) == IF key \in DOMAIN values THEN values[key] ELSE default

get_restaurants(result) ==
    [i \in 1..Len(result.response.venues) |->
        LET venue == result.response.venues[i]
        IN  Restaurant(venue.id, venue.name, join(S("\n"), venue.location.formattedAddress))]

fetch_menu_url(restaurant_name) ==
    S("places.singleplatform.com/") \o join_split("-", lower(restaurant_name)) \o S("/menu")

NoResultsReply ==
    S("No Results Found: We could not find any restaurants with the text you sent. Please try again.")

SearchFailedReply ==
    S("We could not find the restaurant you are looking for. Please try again later.")

MenuFailedReply(restaurant) ==
    S("Unfortunately, we could not create a filtered menu for ") \o restaurant.name
        \o S(". Try checking the online menu for more information. ")
        \o fetch_menu_url(restaurant.name)

NoMenuReply(restaurant) ==
    S("Unfortunately, ") \o restaurant.name
        \o S(" does not have a menu. Visit the restaurant for a full menu!\n")
        \o restaurant.address

\* the outcomes of urllib.request.urlopen other than a response: HTTPError for
\* an HTTP error status, URLError for a failure to reach the server
TransportFailures == {"HTTPError", "URLError"}

\* ---- inputs ----
Requests ==
    { [Body |-> S("Green Leaf")],
      [Body |-> S("Green Leaf"), FromCity |-> S("Tustin"), FromState |-> S("CA")],
      [Body |-> S("Pho @ 9 @ Tustin, CA")] }

Venue(venue_id, name, lines) ==
    [id |-> venue_id, name |-> name, location |-> [formattedAddress |-> lines]]

GreenLeafVenue == Venue(S("V1"), S("Green Leaf Cafe"), <<S("1 Main St"), S("Irvine, CA")>>)
PhoVenue == Venue(S("V2"), S(" Pho 9"), <<S("2 Elm St")>>)

SearchResults ==
    {[response |-> [venues |-> v]] : v \in {<<>>, <<GreenLeafVenue>>, <<PhoVenue, GreenLeafVenue>>}}

\* n characters, a space at every fourth place counted from gap
Filler(n, gap) == [i \in 1..n |-> IF i % 4 = gap THEN " " ELSE "a"]

Section(name, items) == [name |-> name, entries |-> [count |-> Len(items), items |-> items]]

\* menus around the size limit: with a description of these lengths the
\* bulleted rendering for 'Green Leaf Cafe' is 1599, 1600 and 1601 long
LongInfoLengths == {1565, 1566, 1567}

\* with a name of these lengths the simplified rendering is 1600 and 1601
\* long, for 'Green Leaf Cafe' and for ' Pho 9'
LongNameLengths == {1583, 1584, 1592, 1593}

MenuResults ==
    { MenuResponse(<<>>),
      MenuResponse(<< <<Section(S("Drinks"), <<[name |-> S("Cola")]>>)>> >>),
      MenuResponse(<< <<Section(S("Mains"),
          << [name |-> S("Veggie Burger"), description |-> S("grilled patty.")],
             [name |-> S("Steak"), description |-> S("grilled beef.")] >>)>> >>) }
    \cup { MenuResponse(<< <<Section(S("Mains"),
                << [name |-> S("Tofu"), description |-> Filler(n, 0)],
                   [name |-> S("Rice")] >>)>> >>) : n \in LongInfoLengths }
    \cup { MenuResponse(<< <<Section(S("Mains"), <<[name |-> Filler(n, 3)]>>)>> >>) :
               n \in LongNameLengths }

\* contents of meat_words.txt as readlines() returns them
WordFiles ==
    { <<S("beef\n"), S(" pork \n")>>,
      <<S("beef\n"), S("\n")>> }

Init ==
    /\ pc = "request"
    /\ request \in Requests
    /\ query = <<>> /\ location = <<>> /\ calls = <<>>
    /\ restaurants = <<>> /\ reply = <<>> /\ sent = <<>> /\ fault = "none"
    /\ NoMenus
    /\ fmt = <<>>

\* sms_reply up to its call of check_menu, and check_menu up to call_api
Receive ==
    /\ pc = "request"
    /\ LET body == values_get(request, "Body", <<>>)
       IN  IF Contains(body, S(" @ "))
           THEN LET parts == split(body, S(" @ "))
                IN  /\ query' = SubSeq(parts, 1, Len(parts) - 1)
                    /\ location' = parts[Len(parts)]
           ELSE /\ query' = body
                /\ location' = values_get(request, "FromCity", S("Irvine")) \o S(", ")
                                    \o values_get(request, "FromState", S("CA"))
    /\ pc' = "search"
    /\ UNCHANGED <<request, calls, restaurants, api_result, heap, menu, safe_words,
                   danger_words, filtered, reply, sent, fault, fmt>>

\* check_menu: the venue search and what follows it up to the menu call
Search ==
    /\ pc = "search"
    /\ LET call == [call |-> "venue_search", near |-> location, query |-> query]
       IN  \/ /\ calls' = Append(calls, call @@ [outcome |-> "HTTPError"])
              /\ reply' = SearchFailedReply
              /\ pc' = "returned"
              /\ UNCHANGED <<restaurants, fault>>
           \/ /\ calls' = Append(calls, call @@ [outcome |-> "URLError"])
              /\ fault' = "URLError"
              /\ pc' = "raised"
              /\ UNCHANGED <<restaurants, reply>>
           \/ \E result \in SearchResults :
                 /\ calls' = Append(calls, call @@ [outcome |-> "ok"])
                 /\ restaurants' = get_restaurants(result)
                 /\ IF Len(restaurants') = 0
                    THEN reply' = NoResultsReply /\ pc' = "returned"
                    ELSE reply' = reply /\ pc' = "fetch"
                 /\ UNCHANGED fault
    /\ UNCHANGED <<request, query, location, api_result, heap, menu, safe_words,
                   danger_words, filtered, sent, fmt>>
\* check_menu: get_menu_items without the test for an empty menu
FetchMenu_no_empty_check ==
    /\ pc = "fetch"
    /\ LET call == [call |-> "menu", venue |-> restaurants[1].id]
       IN  \/ /\ calls' = Append(calls, call @@ [outcome |-> "HTTPError"])
              /\ reply' = MenuFailedReply(restaurants[1])
              /\ pc' = "returned"
              /\ UNCHANGED <<api_result, heap, menu, fault>>
           \/ /\ calls' = Append(calls, call @@ [outcome |-> "URLError"])
              /\ fault' = "URLError"
              /\ pc' = "raised"
              /\ UNCHANGED <<api_result, heap, menu, reply>>
           \/ \E result \in MenuResults :
                 /\ calls' = Append(calls, call @@ [outcome |-> "ok"])
                 /\ api_result' = result
                 /\ LET r == get_menu_items(heap, restaurants[1], result)
                    IN  heap' = r.heap /\ menu' = r.menu
                 /\ reply' = reply /\ pc' = "words"
                 /\ UNCHANGED fault
    /\ UNCHANGED <<request, query, location, restaurants, safe_words, danger_words,
                   filtered, sent, fmt>>

\* check_menu: get_menu_items(restaurants[0]) and the test for an empty menu
FetchMenu ==
    /\ pc = "fetch"
    /\ LET call == [call |-> "menu", venue |-> restaurants[1].id]
       IN  \/ /\ calls' = Append(calls, call @@ [outcome |-> "HTTPError"])
              /\ reply' = MenuFailedReply(restaurants[1])
              /\ pc' = "returned"
              /\ UNCHANGED <<api_result, heap, menu, fault>>
           \/ /\ calls' = Append(calls, call @@ [outcome |-> "URLError"])
              /\ fault' = "URLError"
              /\ pc' = "raised"
              /\ UNCHANGED <<api_result, heap, menu, reply>>
           \/ \E result \in MenuResults :
                 /\ calls' = Append(calls, call @@ [outcome |-> "ok"])
                 /\ api_result' = result
                 /\ LET r == get_menu_items(heap, restaurants[1], result)
                    IN  heap' = r.heap /\ menu' = r.menu
                 /\ IF Len(menu'.dishes) = 0
                    THEN reply' = NoMenuReply(restaurants[1]) /\ pc' = "returned"
                    ELSE reply' = reply /\ pc' = "words"
                 /\ UNCHANGED fault
    /\ UNCHANGED <<request, query, location, restaurants, safe_words, danger_words,
                   filtered, sent, fmt>>

\* the return value of check_menu for the filtered menu
render(h, result) ==
    IF is_too_large(menu_str(h, result))
    THEN simplified_menu(h, result)
    ELSE menu_str(h, result)

\* check_menu: the word file, filter_menu_items and the rendering
ClassifyRender ==
    /\ pc = "words"
    /\ LET call == [call |-> "open", file |-> "meat_words.txt"]
       IN  \/ /\ calls' = Append(calls, call @@ [outcome |-> "FileNotFoundError"])
              /\ fault' = "FileNotFoundError"
              /\ pc' = "raised"
              /\ UNCHANGED <<heap, safe_words, danger_words, filtered, reply>>
           \/ \E lines \in WordFiles :
                 /\ calls' = Append(calls, call @@ [outcome |-> "ok"])
                 /\ safe_words' = vegetarian_words
                 /\ danger_words' = [i \in 1..Len(lines) |-> strip(lines[i])]
                 /\ LET r == filter_menu_items(heap, menu, safe_words', danger_words')
                    IN  /\ heap' = r.heap
                        /\ filtered' = r.menu
                        /\ reply' = render(r.heap, r.menu)
                 /\ pc' = "returned"
                 /\ UNCHANGED fault
    /\ UNCHANGED <<request, query, location, restaurants, api_result, menu, sent, fmt>>

\* the text sms_reply hands to response.message
outbound(result) ==
    IF is_too_large(result)
    THEN strip(SubSeq(result, 1, TWILIO_MAXIMUM_MESSAGE_SIZE - 100)) \o S(" ...")
    ELSE result

\* sms_reply after check_menu has returned
Send ==
    /\ pc = "returned"
    /\ sent' = outbound(reply)
    /\ pc' = "sent"
    /\ UNCHANGED <<request, query, location, calls, restaurants, api_result, heap, menu,
                   safe_words, danger_words, filtered, reply, fault, fmt>>

Next == Receive \/ Search \/ FetchMenu \/ ClassifyRender \/ Send

Spec == Init /\ [][Next]_vars

(***************************************************************************)
(* Properties.                                                             *)
(***************************************************************************)
\* a word of the list occurs in the normalized name or the normalized description
OccursIn(words, dish) ==
    LET name == normalize(dish.name)
        info == normalize(dish.info)
    IN  \E k \in 1..Len(words) : Contains(name, words[k]) \/ Contains(info, words[k])

\* xs is a subsequence of ys
IsSubsequence(xs, ys) ==
    \E f \in [1..Len(xs) -> 1..Len(ys)] :
        /\ \A i \in 1..Len(xs) : xs[i] = ys[f[i]]
        /\ \A i, j \in 1..Len(xs) : i < j => f[i] < f[j]

NamesOf(h, m) == [i \in 1..Len(m.dishes) |-> h[m.dishes[i]].name]

\* C3: every dish of the input menu is decided by the rule: a safe word in the
\* normalized name or description keeps it with note 'has safe word', even when
\* a danger word occurs too; otherwise a danger word drops it; otherwise it is
\* kept with note 'has no danger words'; a kept dish has no other note.
C3_ClassificationRule ==
    pc = "classified" =>
        LET kept == DishesOf(heap, filtered)
        IN  /\ \A i \in 1..Len(menu.dishes) :
                  LET d == heap[menu.dishes[i]]
                      safe == OccursIn(safe_words, d)
                      danger == OccursIn(danger_words, d)
                      copies == {j \in 1..Len(kept) : kept[j].name = d.name}
                  IN  /\ safe =>
                            /\ Cardinality(copies) = 1
                            /\ \A j \in copies : kept[j].note = HasSafeWord
                      /\ (~safe /\ danger) => copies = {}
                      /\ (~safe /\ ~danger) =>
                            /\ Cardinality(copies) = 1
                            /\ \A j \in copies : kept[j].note = HasNoDangerWords
            /\ \A j \in 1..Len(kept) : kept[j].note \in {HasSafeWord, HasNoDangerWords}

\* a dish holding a safe and a danger word is kept next to a dropped one
C3_Witness ==
    /\ pc = "classified"
    /\ \E i, j \in 1..Len(menu.dishes) :
          /\ OccursIn(safe_words, heap[menu.dishes[i]])
          /\ OccursIn(danger_words, heap[menu.dishes[i]])
          /\ ~OccursIn(safe_words, heap[menu.dishes[j]])
          /\ OccursIn(danger_words, heap[menu.dishes[j]])
    /\ Len(filtered.dishes) = 1

\* C4: the dish names of the filtered menu are a subsequence of the input
\* menu's dish names (names unchanged, relative order kept, count not larger),
\* and the filtered menu carries the same restaurant tag.
C4_FilteredIsSubsequence ==
    pc = "classified" =>
        /\ IsSubsequence(NamesOf(heap, filtered), NamesOf(heap, menu))
        /\ Len(filtered.dishes) <= Len(menu.dishes)
        /\ filtered.restaurant = menu.restaurant

\* two dishes are kept, one of them under a name that normalize would change
C4_Witness ==
    /\ pc = "classified"
    /\ Len(filtered.dishes) = 2
    /\ \E i \in 1..Len(filtered.dishes) :
          normalize(heap[filtered.dishes[i]].name) # heap[filtered.dishes[i]].name

\* C10: a call of filter_menu_items leaves the input menu and every Dish of it
\* as they were (same dishes, same order, name, description, note 'none'), and
\* the result holds only Dish objects constructed by the call, none shared
\* with the input menu.
C10_InputNotMutated ==
    [][pc = "classify" =>
          /\ menu' = menu
          /\ \A ref \in 1..Len(heap) : heap'[ref] = heap[ref]
          /\ \A i \in 1..Len(menu.dishes) : heap'[menu.dishes[i]].note = DefaultNote
          /\ \A j \in 1..Len(filtered'.dishes) :
                /\ filtered'.dishes[j] \notin 1..Len(heap)
                /\ filtered'.dishes[j] \notin Range(menu.dishes)]_vars

\* a dish was kept whose formatted description differs from the original's
C10_Witness ==
    /\ pc = "classified"
    /\ \E i \in 1..Len(menu.dishes), j \in 1..Len(filtered.dishes) :
          /\ heap[filtered.dishes[j]].name = heap[menu.dishes[i]].name
          /\ heap[filtered.dishes[j]].info # heap[menu.dishes[i]].info
          /\ heap[filtered.dishes[j]].note # heap[menu.dishes[i]].note

\* C5: format_dish is idempotent: for every input string x,
\* format_dish(format_dish(x)) equals format_dish(x).
C5_FormatDishIdempotent == pc = "formatted" => fmt[3] = fmt[2]

RECURSIVE Concat(_)
Concat(seqs) == IF seqs = <<>> THEN <<>> ELSE Head(seqs) \o Concat(Tail(seqs))

\* word stands in text at position i
StandsAt(text, i, word) ==
    /\ i + Len(word) - 1 <= Len(text)
    /\ SubSeq(text, i, i + Len(word) - 1) = word

NamesBeverage(section) ==
    \E i \in 1..Len(section.name) :
        \/ StandsAt(section.name, i, S("Drinks"))
        \/ StandsAt(section.name, i, S("Beverages"))

\* the sections the flattener reaches: those of the menus with a positive
\* entry count, when the menu count is positive
ReachedSections(result) ==
    LET menus == result.response.menu.menus
    IN  IF menus.count > 0
        THEN Concat([i \in 1..Len(menus.items) |->
                       IF menus.items[i].entries.count > 0
                       THEN menus.items[i].entries.items
                       ELSE <<>>])
        ELSE <<>>

\* the entries of the sections that are not skipped, in provider order
ContributingEntries(result) ==
    LET sections == ReachedSections(result)
    IN  Concat([i \in 1..Len(sections) |->
                  IF ~NamesBeverage(sections[i]) /\ sections[i].entries.count > 0
                  THEN sections[i].entries.items
                  ELSE <<>>])

FirstOccurrence(entries, name) ==
    CHOOSE p \in 1..Len(entries) :
        entries[p].name = name /\ \A q \in 1..(p - 1) : entries[q].name # name

DerivedInfo(entry) ==
    IF "description" \in DOMAIN entry
    THEN rstrip(strip(lower(entry.description)), {"."})
    ELSE <<>>

Flattened == pc \in {"classify", "classified"}

\* C6: the dish names of the flattened menu are pairwise distinct; each name
\* occurring in the non-skipped sections yields exactly one Dish, placed at the
\* position of its first occurrence and carrying the description derived from
\* that first occurrence; the filtered menu has pairwise distinct names too.
C6_DedupFirstOccurrenceWins ==
    Flattened =>
        LET entries == ContributingEntries(api_result)
            names == NamesOf(heap, menu)
            kept == NamesOf(heap, filtered)
        IN  /\ \A i, j \in 1..Len(names) : names[i] = names[j] => i = j
            /\ Range(names) = {entries[p].name : p \in 1..Len(entries)}
            /\ \A i \in 1..Len(names) :
                  heap[menu.dishes[i]].info =
                      DerivedInfo(entries[FirstOccurrence(entries, names[i])])
            /\ \A i, j \in 1..Len(names) :
                  i < j => FirstOccurrence(entries, names[i]) < FirstOccurrence(entries, names[j])
            /\ \A i, j \in 1..Len(kept) : kept[i] = kept[j] => i = j

\* a name occurs twice with different descriptions, after another name, and the
\* classified menu still holds a dish
C6_Witness ==
    /\ pc = "classified"
    /\ LET entries == ContributingEntries(api_result)
       IN  \E p, q \in 1..Len(entries) :
              /\ p < q
              /\ entries[p].name = entries[q].name
              /\ DerivedInfo(entries[p]) # DerivedInfo(entries[q])
    /\ Len(menu.dishes) = 1
    /\ Len(filtered.dishes) = 1

\* C7: a section whose name contains 'Drinks' or 'Beverages' contributes no
\* dish: every dish of the flattened menu is named by an entry of a section
\* with neither substring in its name, and every name of a non-skipped reached
\* section is in the menu, whatever the skipped sections before it hold.
C7_BeverageSectionsExcluded ==
    Flattened =>
        LET sections == ReachedSections(api_result)
            names == Range(NamesOf(heap, menu))
        IN  /\ \A n \in names :
                  \E i \in 1..Len(sections) :
                      /\ ~NamesBeverage(sections[i])
                      /\ \E e \in 1..Len(sections[i].entries.items) :
                            sections[i].entries.items[e].name = n
            /\ \A i \in 1..Len(sections) :
                  (~NamesBeverage(sections[i]) /\ sections[i].entries.count > 0) =>
                      \A e \in 1..Len(sections[i].entries.items) :
                          sections[i].entries.items[e].name \in names

\* a skipped section holding a name comes before a kept section holding the
\* same name, and that name is in the menu
C7_Witness ==
    /\ Flattened
    /\ LET sections == ReachedSections(api_result)
       IN  /\ Len(sections) = 2
           /\ NamesBeverage(sections[1])
           /\ ~NamesBeverage(sections[2])
           /\ sections[1].entries = sections[2].entries
           /\ sections[2].entries.count = 2
    /\ NamesOf(heap, menu) = <<S("tofu"), S("Tofu")>>

\* C1: a transport failure of the venue search or of the menu fetch never
\* leaves check_menu as a raw fault: the request ends with that step's
\* fallback reply, and the failed call is the last thing the request did.
C1_TransportFailureRecovered ==
    \A i \in 1..Len(calls) :
        calls[i].outcome \in TransportFailures =>
            /\ fault = "none"
            /\ pc \in {"returned", "sent"}
            /\ i = Len(calls)
            /\ calls[i].call = "venue_search" => reply = SearchFailedReply
            /\ calls[i].call = "menu" => reply = MenuFailedReply(restaurants[1])

\* C2: a search that finds no venue ends the request with the 'No Results
\* Found' reply and no menu fetch; a menu that flattens to no dish ends it with
\* the 'does not have a menu' reply holding the restaurant's name and address,
\* and the word file is not read and nothing is classified.
C2_EmptyResultShortCircuits ==
    /\ (Len(calls) >= 1 /\ calls[1].outcome = "ok" /\ restaurants = <<>>) =>
          /\ pc \in {"returned", "sent"}
          /\ fault = "none"
          /\ reply = S("No Results Found: We could not find any restaurants with the text you sent. Please try again.")
          /\ Len(calls) = 1
    /\ (Len(calls) >= 2 /\ calls[2].outcome = "ok" /\ menu.dishes = <<>>) =>
          /\ pc \in {"returned", "sent"}
          /\ fault = "none"
          /\ reply = S("Unfortunately, ") \o restaurants[1].name
                        \o S(" does not have a menu. Visit the restaurant for a full menu!\n")
                        \o restaurants[1].address
          /\ Len(calls) = 2
          /\ filtered = EmptyMenu(<<>>)
          /\ danger_words = <<>>

\* the menu of the first restaurant held only a beverage section
C2_Witness ==
    /\ pc = "sent"
    /\ Len(calls) = 2
    /\ calls[2].outcome = "ok"
    /\ api_result.response.menu.menus.count > 0
    /\ menu.dishes = <<>>
    /\ Len(restaurants) = 2

\* the request reached the rendering of a filtered menu
Rendered == Len(calls) = 3 /\ calls[3].outcome = "ok"

\* C8: check_menu returns the bulleted rendering of the filtered menu when it
\* is at most 1600 long and the simplified rendering otherwise, unmodified; a
\* simplified rendering of at most 1600 is what sms_reply sends.
C8_RenderingChoice ==
    Rendered =>
        LET full == menu_str(heap, filtered)
            simple == simplified_menu(heap, filtered)
        IN  /\ pc \in {"returned", "sent"}
            /\ reply = IF Len(full) <= 1600 THEN full ELSE simple
            /\ (pc = "sent" /\ Len(full) > 1600 /\ Len(simple) <= 1600) => sent = simple

\* the bulleted rendering was one character too long and the simplified
\* rendering was sent
C8_Witness ==
    /\ Rendered
    /\ pc = "sent"
    /\ Len(menu_str(heap, filtered)) = 1601
    /\ Len(simplified_menu(heap, filtered)) <= 1600
    /\ sent = simplified_menu(heap, filtered)

\* C9: sms_reply sends the string check_menu returned unchanged when it is at
\* most 1600 long; otherwise its first 1500 characters, trailing whitespace
\* stripped and leading characters untouched, followed by ' ...'; the text
\* sent is never longer than 1600.
C9_TruncationAtBoundary ==
    pc = "sent" =>
        /\ sent = IF Len(reply) <= 1600
                  THEN reply
                  ELSE rstrip(SubSeq(reply, 1, 1500), Whitespace) \o S(" ...")
        /\ Len(sent) <= 1600

====
